---------------------------- MODULE Spec2Model ----------------------------
(***************************************************************************)
(* Model of fire-tracker's server.js: the badge/PIN authentication         *)
(* endpoint with its failed-attempt counter and lockout, the               *)
(* administrative PIN reset, the firefighter listing, and the versioned    *)
(* schema migration run at start-up.                                       *)
(***************************************************************************)
EXTENDS Integers, Sequences, FiniteSets, TLC

NULL == "NULL"

\* A non-null timestamp (new Date().toISOString()).
NOW == "ts"

(***************************************************************************)
(* Bounds of the model.                                                    *)
(***************************************************************************)
\* authenticate requests received in one behaviour
MaxCalls == 6
\* authenticate requests in flight at once in the concurrent specification
MaxInFlight == 2
\* administrative PIN resets in one behaviour
MaxResets == 1

(***************************************************************************)
(* Program constants.                                                      *)
(***************************************************************************)
\* server.js:512  shouldLock = failedAttempts >= 5
LockThreshold == 5

VARIABLES
    firefighters,     \* table firefighters: badge -> row
    auth_logs,        \* table auth_logs: sequence of rows, in insertion order
    pin_reset_logs,   \* table pin_reset_logs: sequence of rows
    pending,          \* statements issued by db.run without a callback, not yet executed
    calls,            \* authenticate requests: id -> position and locals of the handler
    resets,           \* number of PIN reset requests handled
    listing,          \* body of the last GET /api/firefighters response
    tables,           \* names of the tables that exist (sqlite_master)
    columns,          \* columns ALTER TABLE has added to firefighters
    db_version,       \* table db_version: the sequence of its version values
    stations,         \* table stations: the names (primary key) of its rows
    station_accounts, \* table station_accounts: station name -> password
    activity_categories, \* table activity_categories: the category names (unique)
    boot,             \* the start-up of the process: position, locals, environment
    incidents,        \* table incidents: id -> row
    attendees,        \* table attendees: sequence of rows, in insertion order
    replies           \* responses of the firefighter and incident endpoints, in order

authVars == <<firefighters, auth_logs, pin_reset_logs, pending, calls, resets, listing>>

\* The incident tables and the responses of the endpoints that write them.
incidentVars == <<incidents, attendees, replies>>

\* What the authenticate, PIN reset and listing handlers never write.
schemaVars == <<tables, columns, db_version, stations, station_accounts,
                activity_categories, boot, incidentVars>>

\* What start-up never writes.
requestVars == <<auth_logs, pin_reset_logs, pending, calls, resets, listing,
                 incidentVars>>

vars == <<authVars, schemaVars>>

(***************************************************************************)
(* bcrypt: a salted one-way hash. The hash carries its salt; comparing     *)
(* re-hashes the candidate with the salt of the stored hash.               *)
(***************************************************************************)
Salts == {1, 2}

bcrypt_hash(pin, salt) == <<salt, pin>>

bcrypt_compare_never(pin, hash) == FALSE

bcrypt_compare(pin, hash) == bcrypt_hash(pin, hash[1]) = hash

(***************************************************************************)
(* Reference data of insertDefaultData. A PIN is the sequence of its        *)
(* characters.                                                             *)
(***************************************************************************)
defaultPersonnel ==
    [b \in {"001", "002", "003", "004", "005"} |->
        CASE b = "001" -> [name |-> "John Smith", station |-> "Station 1",
                           pin |-> <<"1", "2", "3", "4">>]
          [] b = "002" -> [name |-> "Jane Doe", station |-> "Station 1",
                           pin |-> <<"2", "3", "4", "5">>]
          [] b = "003" -> [name |-> "Mike Johnson", station |-> "Station 2",
                           pin |-> <<"3", "4", "5", "6">>]
          [] b = "004" -> [name |-> "Sarah Williams", station |-> "Station 2",
                           pin |-> <<"4", "5", "6", "7">>]
          [] b = "005" -> [name |-> "Tom Brown", station |-> "Station 3",
                           pin |-> <<"5", "6", "7", "8">>]]

\* The row INSERT OR IGNORE INTO firefighters creates: the columns the
\* statement names, the others at their column defaults.
NewFirefighterRow(name, station, pinHash) ==
    [name |-> name, station |-> station, pin_hash |-> pinHash,
     failed_attempts |-> 0, account_locked |-> 0, last_failed_attempt |-> NULL]


\* The store as initializeDatabase leaves it on an empty database file, with
\* the salts bcrypt drew for the five seeded PINs.
SeededFirefighters ==
    [b \in DOMAIN defaultPersonnel |->
        NewFirefighterRow(defaultPersonnel[b].name, defaultPersonnel[b].station,
                          bcrypt_hash(defaultPersonnel[b].pin, 1))]

(***************************************************************************)
(* POST /api/firefighters/authenticate                                     *)
(***************************************************************************)
CallIds == 1..MaxCalls

\* A request that has not arrived yet.
IdleCall ==
    [pc |-> "idle", badge |-> "", pin |-> <<>>, found |-> FALSE,
     row |-> NewFirefighterRow(NULL, NULL, <<0, <<>>>>),
     isPinValid |-> FALSE, status |-> 0, error |-> NULL, body |-> <<>>]

\* Requests arrive in the order of their ids.
IsNextCall(c) ==
    /\ calls[c].pc = "idle"
    /\ \A d \in CallIds : d < c => calls[d].pc # "idle"

InFlight == {c \in CallIds : calls[c].pc \notin {"idle", "done"}}

\* No request is being handled and no statement is waiting to be executed.
Quiescent == InFlight = {} /\ pending = {}

\* JavaScript truthiness of the request fields: a missing or empty badge or
\* PIN is falsy.
FalsyBadge(badge) == badge = ""

FalsyPin_never(pin) == FALSE

FalsyPin(pin) == pin = <<>>

\* if (firefighter.account_locked): the column holds 0 or 1.
IsLocked_never(firefighter) == FALSE

IsLocked(firefighter) == firefighter.account_locked # 0

\* const failedAttempts = (firefighter.failed_attempts || 0) + 1;
failedAttempts(firefighter) == firefighter.failed_attempts + 1

\* const shouldLock = failedAttempts >= 5;
shouldLock_above(attempts) == attempts > LockThreshold

shouldLock(attempts) == attempts >= LockThreshold

\* const { pin_hash, ...safeFirefighter } = firefighter;
safeFirefighter_whole_row(firefighter) == firefighter

safeFirefighter(firefighter) ==
    [f \in DOMAIN firefighter \ {"pin_hash"} |-> firefighter[f]]

\* logAuthAttempt: the row INSERT INTO auth_logs adds.
AuthLogRow(badge, success, failureReason) ==
    [badge |-> badge, success |-> IF success THEN 1 ELSE 0,
     failure_reason |-> failureReason]

logAuthAttempt(badge, success, failureReason) ==
    auth_logs' = Append(auth_logs, AuthLogRow(badge, success, failureReason))

\* Handler entry: validation, then db.get is issued.
Authenticate(c, badge, pin) ==
    /\ IsNextCall(c)
    /\ calls' = [calls EXCEPT ![c] =
                    [@ EXCEPT !.badge = badge, !.pin = pin,
                              !.pc = IF FalsyBadge(badge) \/ FalsyPin(pin)
                                     THEN "logMissing" ELSE "lookup"]]
    /\ UNCHANGED <<firefighters, auth_logs, pin_reset_logs, pending, resets, listing>>
    /\ UNCHANGED schemaVars

\* The callback of db.get("SELECT * FROM firefighters WHERE badge = ?").
Lookup(c) ==
    /\ calls[c].pc = "lookup"
    /\ LET badge == calls[c].badge IN
       IF badge \notin DOMAIN firefighters
       THEN calls' = [calls EXCEPT ![c].pc = "logNotFound"]
       ELSE LET firefighter == firefighters[badge] IN
            calls' = [calls EXCEPT ![c] =
                        [@ EXCEPT !.found = TRUE, !.row = firefighter,
                                  !.pc = IF IsLocked(firefighter)
                                         THEN "logLocked" ELSE "compare"]]
    /\ UNCHANGED <<firefighters, auth_logs, pin_reset_logs, pending, resets, listing>>
    /\ UNCHANGED schemaVars

\* db.run("UPDATE firefighters SET failed_attempts = 0, last_failed_attempt = NULL
\*         WHERE badge = ?", [badge])
ResetAttemptsUpdate_other_badge(c, badge) ==
    [id |-> c, kind |-> "reset_attempts", badge |-> "",
     failed_attempts |-> 0, account_locked |-> 0]

ResetAttemptsUpdate(c, badge) ==
    [id |-> c, kind |-> "reset_attempts", badge |-> badge,
     failed_attempts |-> 0, account_locked |-> 0]

\* db.run("UPDATE firefighters SET failed_attempts = ?, last_failed_attempt = ?,
\*         account_locked = ? ...")
FailedAttemptUpdate(c, badge, firefighter) ==
    [id |-> c, kind |-> "fail_attempt", badge |-> badge,
     failed_attempts |-> failedAttempts(firefighter),
     account_locked |-> IF shouldLock(failedAttempts(firefighter)) THEN 1 ELSE 0]

\* The continuation of await bcrypt.compare: the UPDATE is issued without a
\* callback, then logAuthAttempt is awaited.
Compare(c) ==
    /\ calls[c].pc = "compare"
    /\ LET valid == bcrypt_compare(calls[c].pin, calls[c].row.pin_hash) IN
       /\ calls' = [calls EXCEPT ![c] =
                       [@ EXCEPT !.isPinValid = valid,
                                 !.pc = IF valid THEN "logSuccess" ELSE "logInvalid"]]
       /\ pending' = pending \cup
                       {IF valid THEN ResetAttemptsUpdate(c, calls[c].badge)
                        ELSE FailedAttemptUpdate(c, calls[c].badge, calls[c].row)}
    /\ UNCHANGED <<firefighters, auth_logs, pin_reset_logs, resets, listing>>
    /\ UNCHANGED schemaVars

\* The response the handler sends once logAuthAttempt has resolved.
Response(call) ==
    CASE call.pc = "logMissing" ->
            [status |-> 400, error |-> "Badge and PIN are required", body |-> <<>>]
      [] call.pc = "logNotFound" ->
            [status |-> 401, error |-> "Invalid badge number", body |-> <<>>]
      [] call.pc = "logLocked" ->
            [status |-> 423, error |-> "Account is locked. Contact administrator.",
             body |-> <<>>]
      [] call.pc = "logSuccess" ->
            [status |-> 200, error |-> NULL, body |-> safeFirefighter(call.row)]
      [] call.pc = "logInvalid" ->
            IF shouldLock(failedAttempts(call.row))
            THEN [status |-> 423,
                  error |-> "Account locked due to multiple failed attempts. Contact administrator.",
                  body |-> <<>>]
            ELSE [status |-> 401, error |-> "Invalid PIN", body |-> <<>>]

\* The failure reason each branch passes to logAuthAttempt.
FailureReason_invalid_pin(call) ==
    IF call.pc = "logSuccess" THEN NULL ELSE "Invalid PIN"

FailureReason(call) ==
    CASE call.pc = "logMissing" -> "Missing badge or PIN"
      [] call.pc = "logNotFound" -> "Badge not found"
      [] call.pc = "logLocked" -> "Account locked"
      [] call.pc = "logSuccess" -> NULL
      [] call.pc = "logInvalid" -> "Invalid PIN"

LogPcs == {"logMissing", "logNotFound", "logLocked", "logSuccess", "logInvalid"}

Respond(c) ==
    calls' = [calls EXCEPT ![c] =
                [@ EXCEPT !.pc = "done",
                          !.status = Response(calls[c]).status,
                          !.error = Response(calls[c]).error,
                          !.body = Response(calls[c]).body]]

\* The INSERT of logAuthAttempt runs, its callback resolves the promise and
\* the handler sends the response.
Logged(c) ==
    /\ calls[c].pc \in LogPcs
    /\ logAuthAttempt(calls[c].badge, calls[c].pc = "logSuccess", FailureReason(calls[c]))
    /\ Respond(c)
    /\ UNCHANGED <<firefighters, pin_reset_logs, pending, resets, listing>>
    /\ UNCHANGED schemaVars


(***************************************************************************)
(* Statements issued by db.run without a callback: sqlite3 executes them   *)
(* some time after the handler has moved on.                               *)
(***************************************************************************)
ExecUpdate_every_row(stmt) ==
    [b \in DOMAIN firefighters |->
        IF stmt.kind = "reset_attempts"
        THEN [firefighters[b] EXCEPT !.failed_attempts = 0, !.last_failed_attempt = NULL]
        ELSE [firefighters[b] EXCEPT !.failed_attempts = stmt.failed_attempts,
                                     !.last_failed_attempt = NOW,
                                     !.account_locked = stmt.account_locked]]

ExecUpdate(stmt) ==
    IF stmt.badge \notin DOMAIN firefighters
    THEN firefighters
    ELSE IF stmt.kind = "reset_attempts"
    THEN [firefighters EXCEPT ![stmt.badge] =
            [@ EXCEPT !.failed_attempts = 0, !.last_failed_attempt = NULL]]
    ELSE [firefighters EXCEPT ![stmt.badge] =
            [@ EXCEPT !.failed_attempts = stmt.failed_attempts,
                      !.last_failed_attempt = NOW,
                      !.account_locked = stmt.account_locked]]

DbRun(stmt) ==
    /\ stmt \in pending
    /\ pending' = pending \ {stmt}
    /\ IF stmt.kind = "pin_reset_log"
       THEN /\ pin_reset_logs' = Append(pin_reset_logs,
                                  [badge |-> stmt.badge, reset_type |-> "admin"])
            /\ UNCHANGED firefighters
       ELSE /\ firefighters' = ExecUpdate(stmt)
            /\ UNCHANGED pin_reset_logs
    /\ UNCHANGED <<auth_logs, calls, resets, listing>>
    /\ UNCHANGED schemaVars

(***************************************************************************)
(* PUT /api/firefighters/:badge/pin                                        *)
(***************************************************************************)
Digits == {"0", "1", "2", "3", "4", "5", "6", "7", "8", "9"}

\* /^\d{4}$/.test(newPin)
IsFourDigits(pin) == Len(pin) = 4 /\ \A i \in 1..Len(pin) : pin[i] \in Digits

\* UPDATE firefighters SET pin_hash = ?, pin_reset_at = ?, pin_reset_by = ?,
\*        failed_attempts = 0, account_locked = 0 WHERE badge = ?
PinResetUpdate(firefighter, pinHash) ==
    [firefighter EXCEPT !.pin_hash = pinHash, !.failed_attempts = 0,
                        !.account_locked = 0]

ResetPin(badge, newPin, salt) ==
    /\ Len(resets) < MaxResets
    /\ IF FalsyPin(newPin) \/ ~IsFourDigits(newPin)
       THEN /\ resets' = Append(resets, [badge |-> badge, status |-> 400])
            /\ UNCHANGED <<firefighters, pending>>
       ELSE IF badge \notin DOMAIN firefighters
       THEN /\ resets' = Append(resets, [badge |-> badge, status |-> 404])
            /\ UNCHANGED <<firefighters, pending>>
       ELSE /\ firefighters' = [firefighters EXCEPT ![badge] =
                                  PinResetUpdate(@, bcrypt_hash(newPin, salt))]
            /\ pending' = pending \cup
                            {[id |-> -(Len(resets) + 1), kind |-> "pin_reset_log",
                              badge |-> badge, failed_attempts |-> 0,
                              account_locked |-> 0]}
            /\ resets' = Append(resets, [badge |-> badge, status |-> 200])
    /\ UNCHANGED <<auth_logs, pin_reset_logs, calls, listing>>
    /\ UNCHANGED schemaVars

(***************************************************************************)
(* GET /api/firefighters                                                   *)
(***************************************************************************)
\* SELECT badge, name, rank, station, ..., failed_attempts, account_locked,
\*        created_at FROM firefighters
ListColumns == {"name", "station", "failed_attempts", "account_locked"}

ListRow(badge, firefighter) ==
    [f \in ListColumns \cup {"badge"} |->
        IF f = "badge" THEN badge ELSE firefighter[f]]

GetFirefighters ==
    /\ listing' = {ListRow(b, firefighters[b]) : b \in DOMAIN firefighters}
    /\ listing' # listing
    /\ UNCHANGED <<firefighters, auth_logs, pin_reset_logs, pending, calls, resets>>
    /\ UNCHANGED schemaVars

(***************************************************************************)
(* Storage errors during authentication.                                   *)
(***************************************************************************)
\* db.get calls back with err: the handler answers 500 and returns.
LookupError(c) ==
    /\ calls[c].pc = "lookup"
    /\ calls' = [calls EXCEPT ![c] =
                    [@ EXCEPT !.pc = "done", !.status = 500,
                              !.error = "Internal server error"]]
    /\ UNCHANGED <<firefighters, auth_logs, pin_reset_logs, pending, resets, listing>>
    /\ UNCHANGED schemaVars

\* The INSERT of logAuthAttempt fails: its callback () => resolve() drops the
\* error and the handler answers as if the row had been written.
LoggedError(c) ==
    /\ calls[c].pc \in LogPcs
    /\ Respond(c)
    /\ UNCHANGED <<firefighters, auth_logs, pin_reset_logs, pending, resets, listing>>
    /\ UNCHANGED schemaVars

(***************************************************************************)
(* Start-up: initializeDatabase = runMigrations, then insertDefaultData.   *)
(***************************************************************************)
\* start-ups of the process in one behaviour
MaxRuns == 3

\* const CURRENT_DB_VERSION = 3;
CURRENT_DB_VERSION == 3

V1Tables == {"firefighters", "incidents", "attendees", "events", "event_attendees",
             "stations", "station_accounts"}

V2Columns == {"pin_hash", "pin_reset_at", "pin_reset_by", "account_locked",
              "failed_attempts", "last_failed_attempt"}

V2Tables == {"auth_logs", "pin_reset_logs"}

V3Tables == {"activity_categories", "settings", "audit_log"}

defaultStations == {"Station 1", "Station 2", "Station 3", "Station 4", "Station 5"}

stationAccounts ==
    [n \in defaultStations |->
        CASE n = "Station 1" -> "station1pass"
          [] n = "Station 2" -> "station2pass"
          [] n = "Station 3" -> "station3pass"
          [] n = "Station 4" -> "station4pass"
          [] n = "Station 5" -> "station5pass"]

defaultCategories == {"Fire Training", "EMS Training", "Equipment Maintenance",
                      "Community Event", "Physical Training"}

\* getDatabaseVersion: 0 when table db_version is absent or empty, else the
\* version of its first row.
getDatabaseVersion ==
    IF "db_version" \notin tables THEN 0
    ELSE IF db_version = <<>> THEN 0
    ELSE db_version[1]

\* The process is not running, or is serving requests.
Stopped == {"listening", "exited", "down"}

\* const currentVersion = await getDatabaseVersion();
ReadVersion ==
    /\ boot.pc = "start"
    /\ boot' = [boot EXCEPT !.pc = "v1", !.currentVersion = getDatabaseVersion]
    /\ UNCHANGED <<firefighters, tables, columns, db_version, stations,
                   station_accounts, activity_categories>>
    /\ UNCHANGED requestVars

\* if (currentVersion < 1) await migration_v1(): CREATE TABLE IF NOT EXISTS x 7.
migration_v1 ==
    /\ boot.pc = "v1"
    /\ boot' = [boot EXCEPT !.pc = "v2"]
    /\ tables' = IF boot.currentVersion < 1 THEN tables \cup V1Tables ELSE tables
    /\ UNCHANGED <<firefighters, columns, db_version, stations, station_accounts,
                   activity_categories>>
    /\ UNCHANGED requestVars

\* if (currentVersion < 2) await migration_v2(): ALTER TABLE firefighters ADD
\* COLUMN x 6, CREATE TABLE IF NOT EXISTS x 2. ADD COLUMN of a column that
\* exists is an error; the statement has no callback, so sqlite3 emits it as
\* an 'error' event nobody listens to and the process dies of it.
\* boot.failed holds the steps of this start-up a statement of which erred.
migration_v2 ==
    /\ boot.pc = "v2"
    /\ IF boot.currentVersion >= 2
       THEN /\ boot' = [boot EXCEPT !.pc = "v3"]
            /\ UNCHANGED <<tables, columns>>
       ELSE IF columns \cap V2Columns # {} \/ "firefighters" \notin tables
       THEN /\ boot' = [boot EXCEPT !.pc = "down", !.failed = {"v2"}]
            /\ UNCHANGED <<tables, columns>>
       ELSE /\ boot' = [boot EXCEPT !.pc = "v3"]
            /\ columns' = columns \cup V2Columns
            /\ tables' = tables \cup V2Tables
    /\ UNCHANGED <<firefighters, db_version, stations, station_accounts,
                   activity_categories>>
    /\ UNCHANGED requestVars

\* if (currentVersion < 3) await migration_v3(): CREATE TABLE IF NOT EXISTS x 3.
migration_v3 ==
    /\ boot.pc = "v3"
    /\ boot' = [boot EXCEPT !.pc = "setCreate"]
    /\ tables' = IF boot.currentVersion < 3 THEN tables \cup V3Tables ELSE tables
    /\ UNCHANGED <<firefighters, columns, db_version, stations, station_accounts,
                   activity_categories>>
    /\ UNCHANGED requestVars

\* setDatabaseVersion(CURRENT_DB_VERSION), statement by statement:
\* CREATE TABLE IF NOT EXISTS db_version
setDatabaseVersion_create ==
    /\ boot.pc = "setCreate"
    /\ boot' = [boot EXCEPT !.pc = "setDelete"]
    /\ tables' = tables \cup {"db_version"}
    /\ UNCHANGED <<firefighters, columns, db_version, stations, station_accounts,
                   activity_categories>>
    /\ UNCHANGED requestVars

\* DELETE FROM db_version
setDatabaseVersion_delete ==
    /\ boot.pc = "setDelete"
    /\ boot' = [boot EXCEPT !.pc = "setInsert"]
    /\ db_version' = <<>>
    /\ UNCHANGED <<firefighters, tables, columns, stations, station_accounts,
                   activity_categories>>
    /\ UNCHANGED requestVars

\* INSERT INTO db_version (version) VALUES (?)
setDatabaseVersion_insert ==
    /\ boot.pc = "setInsert"
    /\ boot' = [boot EXCEPT !.pc = "seed"]
    /\ db_version' = Append(db_version, CURRENT_DB_VERSION)
    /\ UNCHANGED <<firefighters, tables, columns, stations, station_accounts,
                   activity_categories>>
    /\ UNCHANGED requestVars

\* INSERT OR IGNORE into a table keyed by its primary (or unique) key: a row
\* whose key is present is left as it is. The statement fails, and the
\* callback () => resolve() drops the error, when the table is missing.
InsertOrReplace(table, rows, key, row) ==
    IF table \notin tables THEN rows
    ELSE [k \in DOMAIN rows \cup {key} |-> IF k = key THEN row ELSE rows[k]]

InsertOrIgnore(table, rows, key, row) ==
    IF table \notin tables \/ key \in DOMAIN rows THEN rows
    ELSE [k \in DOMAIN rows \cup {key} |-> IF k = key THEN row ELSE rows[k]]

RECURSIVE InsertAllOrIgnore(_, _, _, _)
\* One INSERT OR IGNORE per key of keys, with row newRows[key].
InsertAllOrIgnore(table, rows, keys, newRows) ==
    IF keys = {} THEN rows
    ELSE LET key == CHOOSE k \in keys : TRUE IN
         InsertAllOrIgnore(table, InsertOrIgnore(table, rows, key, newRows[key]),
                           keys \ {key}, newRows)

\* insertDefaultData: the four loops of INSERT OR IGNORE. salt[b] is the salt
\* bcrypt.hash draws for the PIN of badge b. The insert into firefighters
\* names pin_hash, a column of migration_v2.
insertDefaultData(salt) ==
    /\ boot.pc = "seed"
    /\ boot' = [boot EXCEPT !.pc = "listening"]
    /\ stations' = DOMAIN InsertAllOrIgnore("stations",
                        [n \in stations |-> n], defaultStations,
                        [n \in defaultStations |-> n])
    /\ station_accounts' = InsertAllOrIgnore("station_accounts", station_accounts,
                                             defaultStations, stationAccounts)
    /\ firefighters' =
          IF "pin_hash" \notin columns THEN firefighters
          ELSE InsertAllOrIgnore("firefighters", firefighters, DOMAIN defaultPersonnel,
                  [b \in DOMAIN defaultPersonnel |->
                      NewFirefighterRow(defaultPersonnel[b].name,
                                        defaultPersonnel[b].station,
                                        bcrypt_hash(defaultPersonnel[b].pin, salt[b]))])
    /\ activity_categories' = DOMAIN InsertAllOrIgnore("activity_categories",
                        [n \in activity_categories |-> n], defaultCategories,
                        [n \in defaultCategories |-> n])
    /\ UNCHANGED <<tables, columns, db_version>>
    /\ UNCHANGED requestVars

\* The process is stopped (SIGINT, SIGTERM) or has exited, and is started again.
Restart ==
    /\ boot.pc \in Stopped
    /\ boot.run < MaxRuns
    /\ boot' = [pc |-> "start", currentVersion |-> 0, run |-> boot.run + 1,
                failed |-> {}, MAX_FAILED_ATTEMPTS |-> boot.MAX_FAILED_ATTEMPTS]
    /\ UNCHANGED <<firefighters, tables, columns, db_version, stations,
                   station_accounts, activity_categories>>
    /\ UNCHANGED requestVars

\* A statement of getDatabaseVersion or setDatabaseVersion calls back with an
\* error: the promise rejects, initializeDatabase throws and the process
\* exits with code 1. The failed statement has changed nothing.
StartupStorageError ==
    /\ boot.pc \in {"start", "setCreate", "setDelete", "setInsert"}
    /\ boot' = [boot EXCEPT !.pc = "exited"]
    /\ UNCHANGED <<firefighters, tables, columns, db_version, stations,
                   station_accounts, activity_categories>>
    /\ UNCHANGED requestVars

\* The process is killed during start-up.
Kill ==
    /\ boot.pc \notin Stopped
    /\ boot' = [boot EXCEPT !.pc = "down"]
    /\ UNCHANGED <<firefighters, tables, columns, db_version, stations,
                   station_accounts, activity_categories>>
    /\ UNCHANGED requestVars

\* An empty database file, the process starting for the first time.
EmptyStore ==
    /\ firefighters = [b \in {} |-> NULL]
    /\ tables = {}
    /\ columns = {}
    /\ db_version = <<>>
    /\ stations = {}
    /\ station_accounts = [n \in {} |-> NULL]
    /\ activity_categories = {}
    /\ boot = [pc |-> "start", currentVersion |-> 0, run |-> 1, failed |-> {},
               MAX_FAILED_ATTEMPTS |-> <<>>]
    /\ auth_logs = <<>>
    /\ pin_reset_logs = <<>>
    /\ pending = {}
    /\ calls = [c \in CallIds |-> IdleCall]
    /\ resets = <<>>
    /\ listing = {}
    /\ incidents = [i \in {} |-> NULL]
    /\ attendees = <<>>
    /\ replies = <<>>

initializeDatabase ==
    \/ ReadVersion
    \/ migration_v1
    \/ migration_v2
    \/ migration_v3
    \/ setDatabaseVersion_create
    \/ setDatabaseVersion_delete
    \/ setDatabaseVersion_insert
    \/ \E salt \in [DOMAIN defaultPersonnel -> Salts] : insertDefaultData(salt)

(***************************************************************************)
(* SpecMig: start-ups that run to completion, the process being restarted  *)
(* once it is listening.                                                   *)
(***************************************************************************)
NextMig ==
    \/ initializeDatabase
    \/ Restart

SpecMig == EmptyStore /\ [][NextMig]_vars

(***************************************************************************)
(* SpecMigFault: start-ups whose version statements may fail and which may *)
(* be killed at any point.                                                 *)
(***************************************************************************)
NextMigFault ==
    \/ initializeDatabase
    \/ Restart
    \/ StartupStorageError
    \/ Kill

SpecMigFault == EmptyStore /\ [][NextMigFault]_vars

\* The schema and reference data of a completed start-up, of a process
\* started with the environment variable MAX_FAILED_ATTEMPTS unset (<<>>) or
\* set to a number (<<n>>).
MigratedWith(MAX_FAILED_ATTEMPTS) ==
    /\ tables = V1Tables \cup V2Tables \cup V3Tables \cup {"db_version"}
    /\ columns = V2Columns
    /\ db_version = <<CURRENT_DB_VERSION>>
    /\ stations = defaultStations
    /\ station_accounts = stationAccounts
    /\ activity_categories = defaultCategories
    /\ boot = [pc |-> "listening", currentVersion |-> 0, run |-> 1, failed |-> {},
               MAX_FAILED_ATTEMPTS |-> MAX_FAILED_ATTEMPTS]
    /\ incidents = [i \in {} |-> NULL]
    /\ attendees = <<>>
    /\ replies = <<>>

Migrated == MigratedWith(<<>>)

(***************************************************************************)
(* The server once initializeDatabase has completed on an empty store.     *)
(***************************************************************************)
AuthInit ==
    /\ firefighters = SeededFirefighters
    /\ auth_logs = <<>>
    /\ pin_reset_logs = <<>>
    /\ pending = {}
    /\ calls = [c \in CallIds |-> IdleCall]
    /\ resets = <<>>
    /\ listing = {}
    /\ Migrated

\* The PINs clients send.
PIN_1234 == <<"1", "2", "3", "4">>
PIN_2345 == <<"2", "3", "4", "5">>
PIN_0000 == <<"0", "0", "0", "0">>
PIN_wrong == <<"w", "r", "o", "n", "g">>

\* The steps of the handlers that are in progress, and of sqlite3.
HandlerStep == \E c \in CallIds : Lookup(c) \/ Compare(c) \/ Logged(c)

DbStep == \E stmt \in pending : DbRun(stmt)

(***************************************************************************)
(* Spec: one client working sequentially against badge 001 (and the        *)
(* unregistered badge 999): a request is sent once the previous one has    *)
(* been answered and the statements it issued have run.                    *)
(***************************************************************************)
SeqRequests ==
    {[badge |-> "001", pin |-> PIN_1234], [badge |-> "001", pin |-> PIN_wrong],
     [badge |-> "999", pin |-> PIN_1234]}

SeqAuthenticate ==
    \E c \in CallIds, r \in SeqRequests :
        Quiescent /\ Authenticate(c, r.badge, r.pin)

SeqResetPin ==
    \E newPin \in {PIN_0000, PIN_wrong} :
        Quiescent /\ ResetPin("001", newPin, 2)

Next ==
    \/ SeqAuthenticate
    \/ HandlerStep
    \/ DbStep
    \/ SeqResetPin


Spec == AuthInit /\ [][Next]_vars

(***************************************************************************)
(* SpecApi: sequential clients using every kind of request, on two         *)
(* registered badges, with the listing and the PIN reset.                  *)
(***************************************************************************)
\* authenticate requests in one behaviour of SpecApi
MaxApiCalls == 3

ApiRequests ==
    { [badge |-> "001", pin |-> PIN_1234], [badge |-> "001", pin |-> PIN_wrong],
      [badge |-> "002", pin |-> PIN_1234], [badge |-> "999", pin |-> PIN_1234],
      [badge |-> "",    pin |-> PIN_1234], [badge |-> "001", pin |-> <<>>] }

ApiAuthenticate ==
    \E c \in 1..MaxApiCalls, r \in ApiRequests :
        Quiescent /\ Authenticate(c, r.badge, r.pin)

ApiResetPin ==
    \E badge \in {"001", "999"}, newPin \in {PIN_0000, PIN_wrong} :
        Quiescent /\ ResetPin(badge, newPin, 2)

ApiGetFirefighters == Quiescent /\ GetFirefighters

NextApi ==
    \/ ApiAuthenticate
    \/ HandlerStep
    \/ DbStep
    \/ ApiResetPin
    \/ ApiGetFirefighters

SpecApi == AuthInit /\ [][NextApi]_vars

(***************************************************************************)
(* SpecConc: requests for badge 001 handled concurrently. A request may    *)
(* arrive while others are between their storage accesses, and statements  *)
(* issued without a callback run whenever sqlite3 gets to them. It starts  *)
(* in a state Spec reaches: k wrong PINs have been tried on badge 001, one *)
(* after the other, and answered (k below the threshold).                  *)
(***************************************************************************)
\* authenticate requests in one behaviour of SpecConc
MaxConcCalls == 3

AfterFailedAttempts(k) ==
    /\ firefighters = [SeededFirefighters EXCEPT !["001"] =
                          [@ EXCEPT !.failed_attempts = k,
                                    !.last_failed_attempt = IF k = 0 THEN NULL ELSE NOW]]
    /\ auth_logs = [i \in 1..k |-> AuthLogRow("001", FALSE, "Invalid PIN")]
    /\ pin_reset_logs = <<>>
    /\ pending = {}
    /\ calls = [c \in CallIds |-> IdleCall]
    /\ resets = <<>>
    /\ listing = {}
    /\ Migrated

ConcInit == \E k \in 0..(LockThreshold - 1) : AfterFailedAttempts(k)

ConcRequests ==
    {[badge |-> "001", pin |-> PIN_1234], [badge |-> "001", pin |-> PIN_wrong]}

ConcAuthenticate ==
    \E c \in 1..MaxConcCalls, r \in ConcRequests :
        /\ Cardinality(InFlight) < MaxInFlight
        /\ Authenticate(c, r.badge, r.pin)

ConcResetPin == ResetPin("001", PIN_0000, 2)

NextConc ==
    \/ ConcAuthenticate
    \/ HandlerStep
    \/ DbStep
    \/ ConcResetPin

SpecConc == ConcInit /\ [][NextConc]_vars

(***************************************************************************)
(* Properties of sequential authentication (Spec).                         *)
(***************************************************************************)
\* The requests for badge b that have arrived, request c being the last counted.
CallsFor(b, c) == {d \in 1..c : calls[d].pc # "idle" /\ calls[d].badge = b}

\* Request c is the latest request for its badge.
LatestFor(c) == CallsFor(calls[c].badge, MaxCalls) = CallsFor(calls[c].badge, c)

\* Request c has been answered and the UPDATE it issued has run.
Settled(c) == calls[c].pc = "done" /\ \A stmt \in pending : stmt.id # c

\* Request c carries a PIN, and not the one badge b was seeded with.
SendsWrongPin(c, b) ==
    /\ ~FalsyPin(calls[c].pin)
    /\ ~bcrypt_compare(calls[c].pin, SeededFirefighters[b].pin_hash)

\* Request c is the k-th of a run of wrong-PIN requests for a seeded badge
\* that nothing else has touched.
WrongPinRun(c, k) ==
    LET b == calls[c].badge IN
    /\ calls[c].pc = "done"
    /\ b \in DOMAIN SeededFirefighters
    /\ resets = <<>>
    /\ \A d \in CallsFor(b, c) : SendsWrongPin(d, b)
    /\ k = Cardinality(CallsFor(b, c))

\* C1: from failed_attempts = 0 and unlocked, the k-th sequential wrong-PIN
\* request for a badge (k below the threshold of 5) is answered 401 'Invalid
\* PIN' and leaves the stored counter at k with the account unlocked; the 5th
\* is answered 423 and leaves the counter at 5 with account_locked = 1.
C1_LockoutAtThreshold ==
    \A c \in CallIds : \A k \in 1..LockThreshold :
        WrongPinRun(c, k) =>
            /\ calls[c].status = IF k < LockThreshold THEN 401 ELSE 423
            /\ k < LockThreshold => calls[c].error = "Invalid PIN"
            /\ (Settled(c) /\ LatestFor(c)) =>
                  /\ firefighters[calls[c].badge].failed_attempts = k
                  /\ firefighters[calls[c].badge].account_locked =
                        IF k < LockThreshold THEN 0 ELSE 1

\* C1 witness: the 5th wrong PIN in a row has been answered 423 and the
\* record holds counter 5, locked.
C1_Witness ==
    \E c \in CallIds :
        /\ WrongPinRun(c, LockThreshold)
        /\ Settled(c)
        /\ calls[c].status = 423
        /\ firefighters[calls[c].badge].failed_attempts = LockThreshold
        /\ firefighters[calls[c].badge].account_locked = 1

\* Request c read its badge's record and found it locked.
ReadLocked(c) == calls[c].found /\ calls[c].row.account_locked # 0

\* C2: a request that finds its badge's record locked is answered 423
\* 'Account is locked' whatever its PIN, without the PIN being compared, and
\* no step of it changes the record or issues a statement; with sequential
\* requests a locked record is changed by nothing but a PIN reset.
C2_LockedIsRefused ==
    [][/\ \A c \in CallIds :
             ReadLocked(c)' =>
                 /\ calls'[c].pc \in {"logLocked", "done"}
                 /\ calls'[c].pc = "done" =>
                       /\ calls'[c].status = 423
                       /\ calls'[c].error = "Account is locked. Contact administrator."
                 /\ \A stmt \in pending' : stmt.id # c
                 /\ calls'[c] # calls[c] =>
                       /\ firefighters' = firefighters
                       /\ pending' = pending
       /\ \A b \in DOMAIN firefighters :
             (firefighters[b].account_locked = 1 /\ resets' = resets)
                 => firefighters'[b] = firefighters[b]]_vars

\* C2 witness: a request with the correct PIN has been refused with 423 on a
\* locked record, which still holds counter 5.
C2_Witness ==
    \E c \in CallIds :
        /\ ReadLocked(c)
        /\ calls[c].pc = "done"
        /\ calls[c].status = 423
        /\ bcrypt_compare(calls[c].pin, calls[c].row.pin_hash)
        /\ firefighters[calls[c].badge] = calls[c].row
        /\ calls[c].row.failed_attempts = LockThreshold

\* C6: once a request whose PIN verified has been answered and its UPDATE
\* has run, and no later request for the badge has arrived, the record holds
\* failed_attempts = 0, last_failed_attempt = NULL and account_locked = 0.
C6_SuccessResetsCounter ==
    \A c \in CallIds :
        (calls[c].status = 200 /\ Settled(c) /\ LatestFor(c)) =>
            /\ firefighters[calls[c].badge].failed_attempts = 0
            /\ firefighters[calls[c].badge].last_failed_attempt = NULL
            /\ firefighters[calls[c].badge].account_locked = 0

\* C6 witness: a successful request that found failed attempts on the record
\* has settled.
C6_Witness ==
    \E c \in CallIds :
        /\ calls[c].status = 200
        /\ Settled(c)
        /\ LatestFor(c)
        /\ calls[c].row.failed_attempts > 0
        /\ calls[c].row.last_failed_attempt = NOW
        /\ firefighters[calls[c].badge].failed_attempts = 0

(***************************************************************************)
(* SpecFault: sequential requests against a store whose lookups and log    *)
(* inserts may fail.                                                       *)
(***************************************************************************)
FaultRequests ==
    {[badge |-> "001", pin |-> PIN_1234], [badge |-> "001", pin |-> PIN_wrong],
     [badge |-> "999", pin |-> PIN_1234], [badge |-> "", pin |-> PIN_1234]}

FaultAuthenticate ==
    \E c \in 1..MaxApiCalls, r \in FaultRequests :
        Quiescent /\ Authenticate(c, r.badge, r.pin)

StorageError == \E c \in CallIds : LookupError(c) \/ LoggedError(c)

NextFault ==
    \/ FaultAuthenticate
    \/ HandlerStep
    \/ DbStep
    \/ StorageError

SpecFault == AuthInit /\ [][NextFault]_vars

(***************************************************************************)
(* Properties of concurrent authentication (SpecConc).                     *)
(***************************************************************************)
\* The auth_logs rows of badge b with the given failure reason.
LogRows(b, reason) ==
    {i \in 1..Len(auth_logs) :
        auth_logs[i].badge = b /\ auth_logs[i].failure_reason = reason}

\* No request for badge b has verified and no PIN reset has been handled.
NoSuccessNoReset(b) ==
    /\ resets = <<>>
    /\ \A i \in 1..Len(auth_logs) : auth_logs[i].badge = b => auth_logs[i].success = 0
    /\ \A c \in CallIds : calls[c].badge = b => calls[c].pc # "logSuccess"

\* C3: once account_locked of badge 001 is 1 it stays 1 in every later state
\* for as long as no administrative PIN reset has been handled.
C3_LockedStaysLocked ==
    [][(firefighters["001"].account_locked = 1 /\ resets' = <<>>)
          => firefighters'["001"].account_locked = 1]_vars

\* C4: no increment is lost: with no successful login and no reset, once
\* every request has settled the stored failed_attempts of badge 001 equals
\* the number of requests that failed verification.
C4_NoLostIncrement ==
    (Quiescent /\ NoSuccessNoReset("001"))
        => firefighters["001"].failed_attempts = Cardinality(LogRows("001", "Invalid PIN"))

\* The requests for badge b that got past the lock check with a wrong PIN:
\* those logged as 'Invalid PIN' and those about to be.
WrongGuesses(b) ==
    Cardinality(LogRows(b, "Invalid PIN"))
        + Cardinality({c \in CallIds : calls[c].badge = b /\ calls[c].pc = "logInvalid"})

\* C5: with no successful login and no reset in between, at most 5 requests
\* for badge 001 get past the lock check and have a wrong PIN verified.
C5_AtMostThresholdGuesses ==
    NoSuccessNoReset("001") => WrongGuesses("001") <= LockThreshold

(***************************************************************************)
(* Properties of the attempt log and of the responses.                     *)
(***************************************************************************)
\* C7: every authenticate request that has been answered, whatever its
\* outcome, has added exactly one auth_logs row: N answered requests, N rows.
C7_OneLogEntryPerCall ==
    Len(auth_logs) = Cardinality({c \in CallIds : calls[c].pc = "done"})

\* C8: no response carries pin_hash: neither the firefighter object of a
\* successful authenticate response nor any row of GET /api/firefighters.
C8_NoPinHashInResponses ==
    /\ \A c \in CallIds : calls[c].status = 200 => "pin_hash" \notin DOMAIN calls[c].body
    /\ \A row \in listing : "pin_hash" \notin DOMAIN row

\* C8 witness: a successful authenticate response with the firefighter's
\* other columns has been sent, and a listing of all records returned.
C8_Witness ==
    /\ \E c \in CallIds :
          /\ calls[c].status = 200
          /\ "name" \in DOMAIN calls[c].body
          /\ calls[c].body.name = firefighters[calls[c].badge].name
    /\ Cardinality(listing) = Cardinality(DOMAIN firefighters)

(***************************************************************************)
(* Statement errors inside the migration steps.                            *)
(***************************************************************************)
\* The statements of each step, in the order db.serialize runs them.
V1Statements == <<"firefighters", "incidents", "attendees", "events",
                  "event_attendees", "stations", "station_accounts">>

V2Statements == <<"pin_hash", "pin_reset_at", "pin_reset_by", "account_locked",
                  "failed_attempts", "last_failed_attempt", "auth_logs",
                  "pin_reset_logs">>

V3Statements == <<"activity_categories", "settings", "audit_log">>

\* What the first n statements of a step have created.
Ran(statements, n) == {statements[i] : i \in 1..n}

\* migration_v1 with its statement n + 1 failing. Only the last statement has
\* a callback: its error rejects the promise, runMigrations and
\* initializeDatabase throw and the process exits with code 1. The error of
\* an earlier statement is an 'error' event without a listener, of which the
\* process dies.
migration_v1_error(n) ==
    /\ boot.pc = "v1"
    /\ boot.currentVersion < 1
    /\ tables' = tables \cup Ran(V1Statements, n)
    /\ boot' = [boot EXCEPT !.pc = IF n + 1 = Len(V1Statements) THEN "exited" ELSE "down",
                            !.failed = {"v1"}]
    /\ UNCHANGED <<firefighters, columns, db_version, stations, station_accounts,
                   activity_categories>>
    /\ UNCHANGED requestVars

\* migration_v2 with its statement n + 1 failing; as for migration_v1.
migration_v2_error(n) ==
    /\ boot.pc = "v2"
    /\ boot.currentVersion < 2
    /\ columns' = columns \cup (Ran(V2Statements, n) \cap V2Columns)
    /\ tables' = tables \cup (Ran(V2Statements, n) \cap V2Tables)
    /\ boot' = [boot EXCEPT !.pc = IF n + 1 = Len(V2Statements) THEN "exited" ELSE "down",
                            !.failed = {"v2"}]
    /\ UNCHANGED <<firefighters, db_version, stations, station_accounts,
                   activity_categories>>
    /\ UNCHANGED requestVars

\* migration_v3 with its statement n + 1 failing. The promise is resolved as
\* soon as the statements are issued and none of them has a callback:
\* runMigrations goes on to setDatabaseVersion, and the error is an 'error'
\* event without a listener that is emitted when the statement has run.
migration_v3_error(n) ==
    /\ boot.pc = "v3"
    /\ boot.currentVersion < 3
    /\ tables' = tables \cup Ran(V3Statements, n)
    /\ boot' = [boot EXCEPT !.pc = "setCreate", !.failed = {"v3"}]
    /\ UNCHANGED <<firefighters, columns, db_version, stations, station_accounts,
                   activity_categories>>
    /\ UNCHANGED requestVars

\* The 'error' event of the failed statement of migration_v3 is emitted: the
\* process dies of the uncaught exception.
UnhandledError ==
    /\ boot.failed # {}
    /\ boot.pc \notin {"exited", "down"}
    /\ boot' = [boot EXCEPT !.pc = "down"]
    /\ UNCHANGED <<firefighters, tables, columns, db_version, stations,
                   station_accounts, activity_categories>>
    /\ UNCHANGED requestVars

StepError ==
    \/ \E n \in 0..(Len(V1Statements) - 1) : migration_v1_error(n)
    \/ \E n \in 0..(Len(V2Statements) - 1) : migration_v2_error(n)
    \/ \E n \in 0..(Len(V3Statements) - 1) : migration_v3_error(n)

(***************************************************************************)
(* SpecStep: start-ups in which a statement of a migration step may fail,  *)
(* and authenticate requests, which the process accepts once app.listen    *)
(* has been called.                                                        *)
(***************************************************************************)
\* authenticate requests in one behaviour of SpecStep
MaxStepCalls == 1

Listening == boot.pc = "listening"

StepAuthenticate ==
    \E c \in 1..MaxStepCalls, pin \in {PIN_1234, PIN_wrong} :
        Listening /\ Quiescent /\ Authenticate(c, "001", pin)

StepRestart == Quiescent /\ Restart

NextStep ==
    \/ initializeDatabase
    \/ StepError
    \/ UnhandledError
    \/ StepRestart
    \/ StepAuthenticate
    \/ Listening /\ HandlerStep
    \/ Listening /\ DbStep

SpecStep == EmptyStore /\ [][NextStep]_vars

(***************************************************************************)
(* Properties of start-up (SpecMig, SpecMigFault).                         *)
(***************************************************************************)
\* The rows insertDefaultData is responsible for.
ReferenceRows == <<stations, station_accounts, firefighters, activity_categories>>

\* firefighters holds exactly the five default personnel, as inserted: the
\* seeded name, station and PIN (under some salt), the other columns at
\* their defaults.
DefaultPersonnelOnly ==
    /\ DOMAIN firefighters = DOMAIN defaultPersonnel
    /\ \A b \in DOMAIN firefighters :
          \E salt \in Salts :
              firefighters[b] =
                  NewFirefighterRow(defaultPersonnel[b].name, defaultPersonnel[b].station,
                                    bcrypt_hash(defaultPersonnel[b].pin, salt))

\* The store holds version 3 and exactly the configured reference rows.
InitializedStore ==
    /\ getDatabaseVersion = CURRENT_DB_VERSION
    /\ stations = defaultStations /\ Cardinality(stations) = 5
    /\ station_accounts = stationAccounts
    /\ DefaultPersonnelOnly /\ Cardinality(DOMAIN firefighters) = 5
    /\ activity_categories = defaultCategories /\ Cardinality(activity_categories) = 5

\* C9: a start-up on an empty store ends with version 3 recorded and exactly
\* the 5 stations, 5 station accounts, 5 personnel and 5 activity categories;
\* every later start-up ends with the same version and adds or changes no
\* reference row at any of its steps.
C9_IdempotentInitialization ==
    [][/\ boot'.pc = "listening" => InitializedStore'
       /\ boot.run >= 2 => ReferenceRows' = ReferenceRows]_vars

\* C9 witness: the second start-up has completed on the initialized store.
C9_Witness ==
    /\ boot.run = 2
    /\ boot.pc = "listening"
    /\ InitializedStore

\* C10: no start-up, whether it completes, fails or is killed, ends with a
\* recorded version below the version it read when it began.
C10_VersionNeverDecreases ==
    [][(boot.pc \notin Stopped \cup {"start"} /\ boot'.pc \in Stopped)
          => getDatabaseVersion' >= boot.currentVersion]_vars

\* C11: a start-up in which a statement of migration_v1, migration_v2 or
\* migration_v3 has erred fails and writes no version: none of its steps
\* changes table db_version and it never gets to listen.
C11_FailedStepKeepsVersion ==
    [][boot.failed # {} =>
          /\ db_version' = db_version
          /\ boot'.pc # "listening"]_vars

\* C12: a start-up that follows one which ended before the version was
\* recorded re-applies the steps without any of their statements erring.
C12_StepsSafeToReapply == boot.run >= 2 => boot.failed = {}

\* Every table and column of the three migrations is there and version 3 is
\* recorded.
SchemaComplete ==
    /\ tables = V1Tables \cup V2Tables \cup V3Tables \cup {"db_version"}
    /\ columns = V2Columns
    /\ getDatabaseVersion = CURRENT_DB_VERSION

\* C13: the process gets to listen only at the end of a start-up none of
\* whose migration statements erred, and no step of an authenticate call is
\* taken unless the process listens on a completely migrated store.
C13_ListenAfterMigration ==
    [][/\ boot'.pc = "listening" => (boot'.failed = {} /\ SchemaComplete')
       /\ calls' # calls => (Listening /\ SchemaComplete)]_vars

(***************************************************************************)
(* Properties of the PIN reset (SpecConc, SpecReset).                      *)
(***************************************************************************)
\* The authenticate call behind statement stmt read its record before a PIN
\* reset that has since replaced the hash.
ReadBeforeReset(stmt) ==
    /\ stmt.kind # "pin_reset_log"
    /\ stmt.badge \in DOMAIN firefighters
    /\ calls[stmt.id].row.pin_hash # firefighters[stmt.badge].pin_hash

\* C14: once a PIN reset has taken effect, the UPDATE of an authenticate call
\* that read the record before the reset changes neither failed_attempts nor
\* account_locked.
C14_ResetIsAtomic ==
    [][\A stmt \in pending \ pending' :
          ReadBeforeReset(stmt) =>
              /\ firefighters'[stmt.badge].failed_attempts
                    = firefighters[stmt.badge].failed_attempts
              /\ firefighters'[stmt.badge].account_locked
                    = firefighters[stmt.badge].account_locked]_vars

\* The INSERT INTO pin_reset_logs errs. It was issued without a callback, so
\* no row is written, the success response has been sent, and the error is
\* an 'error' event without a listener of which the process dies.
ResetLogError ==
    \E stmt \in pending :
        /\ stmt.kind = "pin_reset_log"
        /\ pending' = pending \ {stmt}
        /\ boot' = [boot EXCEPT !.pc = "down"]
        /\ UNCHANGED <<firefighters, auth_logs, pin_reset_logs, calls, resets, listing>>
        /\ UNCHANGED <<tables, columns, db_version, stations, station_accounts,
                       activity_categories, incidentVars>>

(***************************************************************************)
(* SpecReset: PIN resets whose log statement may fail, among sequential    *)
(* authenticate requests.                                                  *)
(***************************************************************************)
ResetAuthenticate ==
    \E c \in 1..MaxApiCalls, pin \in {PIN_1234, PIN_0000, PIN_wrong} :
        Listening /\ Quiescent /\ Authenticate(c, "001", pin)

ResetResetPin ==
    \E badge \in {"001", "999"}, newPin \in {PIN_0000, PIN_wrong} :
        Listening /\ ResetPin(badge, newPin, 2)

NextReset ==
    \/ ResetAuthenticate
    \/ ResetResetPin
    \/ Listening /\ HandlerStep
    \/ Listening /\ DbStep
    \/ Listening /\ ResetLogError

SpecReset == AuthInit /\ [][NextReset]_vars

\* The PIN resets answered with success.
SuccessfulResets == {i \in 1..Len(resets) : resets[i].status = 200}

\* C15: once no statement is outstanding, every PIN reset that was answered
\* with success (its record holds the new hash, counter 0, lock cleared) has
\* its entry in pin_reset_logs.
C15_ResetWritesLog ==
    pending = {} => Len(pin_reset_logs) = Cardinality(SuccessfulResets)

(***************************************************************************)
(* Properties of single authenticate calls (SpecApi).                      *)
(***************************************************************************)
\* Call c, which has just taken a step, is for a badge that is not registered
\* and carries both a badge and a PIN.
UnknownBadgeStep(c) ==
    /\ calls'[c] # calls[c]
    /\ calls'[c].badge # ""
    /\ calls'[c].pin # <<>>
    /\ calls'[c].badge \notin DOMAIN firefighters

\* C16: no step of a call for an unregistered badge creates or changes a
\* record or issues an UPDATE; the step that answers it answers 401 'Invalid
\* badge number' and appends the call's one log row, a failure with reason
\* 'Badge not found'; its other steps append none.
C16_UnknownBadge ==
    [][\A c \in CallIds :
          UnknownBadgeStep(c) =>
              /\ firefighters' = firefighters
              /\ pending' = pending
              /\ ~calls'[c].found
              /\ IF calls'[c].pc = "done"
                 THEN /\ calls'[c].status = 401
                      /\ calls'[c].error = "Invalid badge number"
                      /\ auth_logs' = Append(auth_logs,
                            [badge |-> calls'[c].badge, success |-> 0,
                             failure_reason |-> "Badge not found"])
                 ELSE auth_logs' = auth_logs]_vars

\* C16 witness: a call for badge 999 has been answered 401 and logged.
C16_Witness ==
    \E c \in CallIds :
        /\ calls[c].pc = "done"
        /\ calls[c].badge = "999"
        /\ calls[c].status = 401
        /\ \E i \in 1..Len(auth_logs) : auth_logs[i].badge = "999"
        /\ "999" \notin DOMAIN firefighters

\* Call c, which has just taken a step, lacks its badge or its PIN.
MissingCredentialsStep(c) ==
    /\ calls'[c] # calls[c]
    /\ (calls'[c].badge = "" \/ calls'[c].pin = <<>>)

\* C17: a call without badge or without PIN never gets to the lookup; no
\* step of it changes a record or issues an UPDATE; the step that answers it
\* answers 400 'Badge and PIN are required' and appends the call's one log
\* row, a failure with reason 'Missing badge or PIN' and the badge as sent.
C17_MissingCredentials ==
    [][\A c \in CallIds :
          MissingCredentialsStep(c) =>
              /\ calls'[c].pc \in {"logMissing", "done"}
              /\ ~calls'[c].found
              /\ firefighters' = firefighters
              /\ pending' = pending
              /\ IF calls'[c].pc = "done"
                 THEN /\ calls'[c].status = 400
                      /\ calls'[c].error = "Badge and PIN are required"
                      /\ auth_logs' = Append(auth_logs,
                            [badge |-> calls'[c].badge, success |-> 0,
                             failure_reason |-> "Missing badge or PIN"])
                 ELSE auth_logs' = auth_logs]_vars

\* C17 witness: a call without PIN for a registered badge and a call without
\* badge have both been answered 400.
C17_Witness ==
    /\ \E c \in CallIds :
          /\ calls[c].pc = "done" /\ calls[c].status = 400
          /\ calls[c].badge = "001" /\ calls[c].pin = <<>>
    /\ \E c \in CallIds :
          /\ calls[c].pc = "done" /\ calls[c].status = 400
          /\ calls[c].badge = ""
    /\ Len(auth_logs) >= 2

(***************************************************************************)
(* authLimiter, the express-rate-limit middleware in front of the          *)
(* authenticate handler. The requests of a behaviour come from one client  *)
(* address inside one window of 15 minutes.                                *)
(***************************************************************************)
\* max: 5, // limit each IP to 5 auth attempts per windowMs
authLimiterMax == 5

\* The hits the limiter has counted for the address in the window: every
\* request to the endpoint, the rejected ones too.
Hits == Cardinality({c \in CallIds : calls[c].pc # "idle"})

\* The request that brings the count to hits is over the limit.
ExceedsLimit_never(hits) == FALSE

ExceedsLimit(hits) == hits > authLimiterMax

\* handler: (req, res) => res.status(429).json({ error: ... }); next() is not
\* called.
TooManyRequests(c, badge, pin) ==
    /\ IsNextCall(c)
    /\ calls' = [calls EXCEPT ![c] =
                    [@ EXCEPT !.badge = badge, !.pin = pin, !.pc = "done",
                              !.status = 429,
                              !.error = "Too many authentication attempts, please try again later."]]
    /\ UNCHANGED <<firefighters, auth_logs, pin_reset_logs, pending, resets, listing>>
    /\ UNCHANGED schemaVars

\* app.post('/api/firefighters/authenticate', authLimiter, async (req, res) => ...
authLimiter(c, badge, pin) ==
    IF ExceedsLimit(Hits + 1)
    THEN TooManyRequests(c, badge, pin)
    ELSE Authenticate(c, badge, pin)

(***************************************************************************)
(* SpecLimit: one client sending requests one after the other through the  *)
(* limiter.                                                                *)
(***************************************************************************)
LimitAuthenticate ==
    \E c \in CallIds, pin \in {PIN_1234, PIN_wrong} :
        Quiescent /\ authLimiter(c, "001", pin)

NextLimit ==
    \/ LimitAuthenticate
    \/ HandlerStep
    \/ DbStep

SpecLimit == AuthInit /\ [][NextLimit]_vars

(***************************************************************************)
(* SpecBurst: one client sending requests with the correct PIN, all of     *)
(* them in flight together if it so chooses, through the limiter.          *)
(***************************************************************************)
BurstAuthenticate == \E c \in CallIds : authLimiter(c, "001", PIN_1234)

NextBurst ==
    \/ BurstAuthenticate
    \/ HandlerStep
    \/ DbStep

SpecBurst == AuthInit /\ [][NextBurst]_vars

\* The requests the limiter let through to the handler.
Admitted == {c \in CallIds : calls[c].pc # "idle" /\ calls[c].status # 429}

\* C18: at most 5 requests of the client get to the handler, so once it has
\* sent 6 at least one was answered 429; the step that rejects a request
\* answers it at once, with no lookup, no log row, no change of a record and
\* no statement, and a rejected request takes no further step.
C18_RateLimit ==
    [][/\ Cardinality(Admitted') <= 5
       /\ Hits' >= 6 => \E c \in CallIds : calls'[c].status = 429
       /\ \A c \in CallIds :
             /\ (calls'[c].status = 429 /\ calls[c].status # 429) =>
                   /\ calls[c].pc = "idle"
                   /\ calls'[c].pc = "done"
                   /\ ~calls'[c].found
                   /\ auth_logs' = auth_logs
                   /\ firefighters' = firefighters
                   /\ pending' = pending
             /\ calls[c].status = 429 => calls'[c] = calls[c]]_vars

\* C18 witness: the client has sent 6 requests, 5 were answered by the
\* handler and logged, the 6th was answered 429.
C18_Witness ==
    /\ Hits = 6
    /\ Cardinality(Admitted) = 5
    /\ \A c \in Admitted : calls[c].pc = "done"
    /\ Len(auth_logs) = 5
    /\ calls[6].status = 429

AnsweredUnknownBadge(c) ==
    /\ calls[c].pc = "done"
    /\ calls[c].badge # ""
    /\ calls[c].pin # <<>>
    /\ calls[c].badge \notin DOMAIN firefighters

\* Call d has been answered and carried a wrong PIN for a registered badge.
AnsweredWrongPin(d) ==
    /\ calls[d].pc = "done"
    /\ calls[d].badge \in DOMAIN firefighters
    /\ calls[d].pin = PIN_wrong

\* C20: among the answers a client has got, those to calls for a badge that
\* does not exist carry the same status code as those to calls with a wrong
\* PIN for a badge that exists.
C20_StatusIndistinguishable ==
    \A c, d \in CallIds :
        (AnsweredUnknownBadge(c) /\ AnsweredWrongPin(d))
            => calls[c].status = calls[d].status

(***************************************************************************)
(* The firefighter and incident endpoints.                                 *)
(***************************************************************************)
\* responses of these endpoints in one behaviour
MaxReplies == 3

\* CREATE TABLE firefighters, incidents, attendees of migration_v1: the
\* columns of each table.
FirefightersColumns ==
    {"badge", "name", "email", "rank", "station", "phone", "hire_date", "status",
     "certifications", "vacation_days_total", "vacation_days_used", "created_at",
     "updated_at"}

IncidentsColumns ==
    {"id", "location", "incident_type", "description", "priority", "time",
     "active", "closed_reason", "closed_by_badge", "closed_by_station",
     "created_at"}

AttendeesColumns ==
    {"id", "incident_id", "badge", "name", "station", "check_in_time",
     "check_out_time", "flagged", "flag_reason", "pay_code"}

\* The columns a table has in the current state of the schema.
TableColumns(table) ==
    CASE table = "firefighters" -> FirefightersColumns \cup columns
      [] table = "incidents" -> IncidentsColumns
      [] table = "attendees" -> AttendeesColumns

\* sqlite3 cannot prepare an INSERT that names a missing table or a column
\* the table does not have: the statement fails with SQLITE_ERROR.
PrepareError(table, named) ==
    table \notin tables \/ ~(named \subseteq TableColumns(table))

\* PRIMARY KEY: a row with this key exists already (SQLITE_CONSTRAINT).
PrimaryKeyConflict_never(rows, key) == FALSE

PrimaryKeyConflict(rows, key) == key \in DOMAIN rows

\* The connection is opened without PRAGMA foreign_keys = ON, and SQLite
\* does not enforce FOREIGN KEY clauses unless it is set.
foreign_keys == FALSE

\* The columns named by the three INSERT statements.
FirefighterInsertColumns == {"badge", "name", "email", "rank", "station", "pin_hash"}

IncidentInsertColumns ==
    {"id", "location", "incident_type", "description", "priority", "time",
     "created_by"}

AttendeeInsertColumns == {"incident_id", "badge", "name", "station"}

Reply(op, request, status, error, body) ==
    [op |-> op, request |-> request, status |-> status, error |-> error,
     body |-> body]

\* POST /api/firefighters
PostFirefighters(badge, name, pin, salt) ==
    LET request == [badge |-> badge, name |-> name, pin |-> pin]
        op == "POST /api/firefighters"
    IN  /\ Len(replies) < MaxReplies
        /\ IF FalsyBadge(badge) \/ name = "" \/ FalsyPin(pin)
           THEN /\ replies' = Append(replies,
                      Reply(op, request, 400, "Badge, name, and PIN are required", <<>>))
                /\ UNCHANGED firefighters
           ELSE IF PrepareError("firefighters", FirefighterInsertColumns)
           THEN /\ replies' = Append(replies, Reply(op, request, 500, "SQLITE_ERROR", <<>>))
                /\ UNCHANGED firefighters
           ELSE IF PrimaryKeyConflict(firefighters, badge)
           THEN /\ replies' = Append(replies,
                      Reply(op, request, 409, "Badge number already exists", <<>>))
                /\ UNCHANGED firefighters
           ELSE /\ firefighters' =
                      [b \in DOMAIN firefighters \cup {badge} |->
                          IF b = badge
                          THEN NewFirefighterRow(name, NULL, bcrypt_hash(pin, salt))
                          ELSE firefighters[b]]
                /\ replies' = Append(replies, Reply(op, request, 201, NULL, <<badge>>))
        /\ UNCHANGED <<auth_logs, pin_reset_logs, pending, calls, resets, listing>>
        /\ UNCHANGED <<incidents, attendees>>
        /\ UNCHANGED <<tables, columns, db_version, stations, station_accounts,
                       activity_categories, boot>>

\* POST /api/incidents
PostIncidents(id, location, incident_type) ==
    LET request == [id |-> id, location |-> location, incident_type |-> incident_type]
        op == "POST /api/incidents"
    IN  /\ Len(replies) < MaxReplies
        /\ IF id = "" \/ location = "" \/ incident_type = ""
           THEN /\ replies' = Append(replies,
                      Reply(op, request, 400,
                            "ID, location, and incident type are required", <<>>))
                /\ UNCHANGED incidents
           ELSE IF PrepareError("incidents", IncidentInsertColumns)
           THEN /\ replies' = Append(replies, Reply(op, request, 500, "SQLITE_ERROR", <<>>))
                /\ UNCHANGED incidents
           ELSE IF PrimaryKeyConflict(incidents, id)
           THEN /\ replies' = Append(replies,
                      Reply(op, request, 409, "Incident ID already exists", <<>>))
                /\ UNCHANGED incidents
           ELSE /\ incidents' =
                      [i \in DOMAIN incidents \cup {id} |->
                          IF i = id
                          THEN [location |-> location, incident_type |-> incident_type]
                          ELSE incidents[i]]
                /\ replies' = Append(replies, Reply(op, request, 201, NULL, <<id>>))
        /\ UNCHANGED <<firefighters, auth_logs, pin_reset_logs, pending, calls, resets,
                       listing>>
        /\ UNCHANGED attendees
        /\ UNCHANGED <<tables, columns, db_version, stations, station_accounts,
                       activity_categories, boot>>

\* FOREIGN KEY (incident_id) REFERENCES incidents (id),
\* FOREIGN KEY (badge) REFERENCES firefighters (badge)
ForeignKeyViolation(row) ==
    /\ foreign_keys
    /\ row.incident_id \notin DOMAIN incidents \/ row.badge \notin DOMAIN firefighters

\* POST /api/incidents/:id/attendees
PostAttendees(id, badge) ==
    LET request == [id |-> id, badge |-> badge]
        op == "POST /api/incidents/:id/attendees"
    IN  /\ Len(replies) < MaxReplies
        /\ IF badge \notin DOMAIN firefighters
           THEN /\ replies' = Append(replies,
                      Reply(op, request, 404, "Firefighter not found", <<>>))
                /\ UNCHANGED attendees
           ELSE LET row == [incident_id |-> id, badge |-> badge,
                            name |-> firefighters[badge].name]
                IN  IF PrepareError("attendees", AttendeeInsertColumns)
                       \/ ForeignKeyViolation(row)
                    THEN /\ replies' = Append(replies,
                               Reply(op, request, 500, "SQLITE_ERROR", <<>>))
                         /\ UNCHANGED attendees
                    ELSE /\ attendees' = Append(attendees, row)
                         /\ replies' = Append(replies, Reply(op, request, 201, NULL, <<>>))
        /\ UNCHANGED <<firefighters, auth_logs, pin_reset_logs, pending, calls, resets,
                       listing>>
        /\ UNCHANGED incidents
        /\ UNCHANGED <<tables, columns, db_version, stations, station_accounts,
                       activity_categories, boot>>

\* COUNT(a.badge) ... FROM incidents i LEFT JOIN attendees a
\*                    ON i.id = a.incident_id GROUP BY i.id
attendee_count(id) ==
    Cardinality({k \in 1..Len(attendees) : attendees[k].incident_id = id})

\* GET /api/incidents
GetIncidents ==
    /\ Len(replies) < MaxReplies
    /\ replies' = Append(replies,
          Reply("GET /api/incidents", <<>>, 200, NULL,
                {[id |-> i, attendee_count |-> attendee_count(i)] :
                    i \in DOMAIN incidents}))
    /\ UNCHANGED <<firefighters, auth_logs, pin_reset_logs, pending, calls, resets,
                   listing>>
    /\ UNCHANGED <<incidents, attendees>>
    /\ UNCHANGED <<tables, columns, db_version, stations, station_accounts,
                   activity_categories, boot>>

(***************************************************************************)
(* SpecRest: one client using the firefighter and incident endpoints and   *)
(* authenticate, one request at a time.                                    *)
(***************************************************************************)
\* authenticate requests in one behaviour of SpecRest
MaxRestCalls == 1

RestAuthenticate ==
    \E c \in 1..MaxRestCalls : Quiescent /\ Authenticate(c, "001", PIN_1234)

RestFirefighters ==
    {[badge |-> "001", pin |-> PIN_2345], [badge |-> "006", pin |-> PIN_2345],
     [badge |-> "001", pin |-> <<>>]}

RestPostFirefighters ==
    \E r \in RestFirefighters :
        Quiescent /\ PostFirefighters(r.badge, "New Hire", r.pin, 2)

RestPostIncidents ==
    \E id \in {"INC-1", ""} :
        Quiescent /\ PostIncidents(id, "12 Main St", "Structure Fire")

RestPostAttendees ==
    \E id \in {"INC-1"}, badge \in {"001", "999"} :
        Quiescent /\ PostAttendees(id, badge)

RestGetIncidents == Quiescent /\ GetIncidents

RestResetPin == Quiescent /\ ResetPin("001", PIN_0000, 2)

NextRest ==
    \/ RestAuthenticate
    \/ HandlerStep
    \/ DbStep
    \/ RestPostFirefighters
    \/ RestPostIncidents
    \/ RestPostAttendees
    \/ RestGetIncidents
    \/ RestResetPin

SpecRest == AuthInit /\ [][NextRest]_vars

\* C21: a POST /api/firefighters request with a name and a PIN whose badge
\* is already registered is answered 409 'Badge number already exists' and
\* leaves the firefighters table, the registered record included, as it was.
C21_DuplicateBadge ==
    [][(/\ Len(replies') = Len(replies) + 1
        /\ replies'[Len(replies')].op = "POST /api/firefighters"
        /\ replies'[Len(replies')].request.badge \in DOMAIN firefighters
        /\ replies'[Len(replies')].request.name # ""
        /\ replies'[Len(replies')].request.pin # <<>>)
       => (/\ replies'[Len(replies')].status = 409
           /\ replies'[Len(replies')].error = "Badge number already exists"
           /\ firefighters' = firefighters)]_vars

C21_Witness ==
    \E k \in 1..Len(replies) :
        /\ replies[k].op = "POST /api/firefighters"
        /\ replies[k].request.badge = "001"
        /\ replies[k].status = 409
        /\ firefighters["001"] = SeededFirefighters["001"]

\* C22: in every reachable state each attendees row references an existing
\* incident and an existing firefighter, and a request to add an attendee
\* with an unregistered badge or to a non-existent incident is refused
\* without inserting a row.
C22_AttendeesReferToRows ==
    /\ \A k \in 1..Len(attendees) :
          /\ attendees[k].incident_id \in DOMAIN incidents
          /\ attendees[k].badge \in DOMAIN firefighters
    /\ \A k \in 1..Len(replies) :
          (/\ replies[k].op = "POST /api/incidents/:id/attendees"
           /\ \/ replies[k].request.id \notin DOMAIN incidents
              \/ replies[k].request.badge \notin DOMAIN firefighters)
          => replies[k].status \notin {200, 201}

\* C23: a POST /api/incidents request with an unused id, a location and an
\* incident type is answered 201 and the incident is stored.
C23_IncidentCreated ==
    [][(/\ Len(replies') = Len(replies) + 1
        /\ replies'[Len(replies')].op = "POST /api/incidents"
        /\ replies'[Len(replies')].request.id # ""
        /\ replies'[Len(replies')].request.id \notin DOMAIN incidents
        /\ replies'[Len(replies')].request.location # ""
        /\ replies'[Len(replies')].request.incident_type # "")
       => (/\ replies'[Len(replies')].status = 201
           /\ replies'[Len(replies')].request.id \in DOMAIN incidents')]_vars

\* Some authenticate call has been answered 200.
Authenticated == \E c \in CallIds : calls[c].pc = "done" /\ calls[c].status = 200

\* C24: a request that creates a firefighter, incident or attendee row, or
\* resets a PIN, is accepted only after the caller has authenticated with
\* badge and PIN.
C24_WritesAuthenticated ==
    /\ \A k \in 1..Len(replies) :
          (replies[k].op # "GET /api/incidents" /\ replies[k].status = 201)
          => Authenticated
    /\ \A k \in 1..Len(resets) : resets[k].status = 200 => Authenticated

(***************************************************************************)
(* SpecLock: authenticate calls for badge 001, all of which may be in      *)
(* progress at once, interleaved with PIN resets, from a record that is    *)
(* one or two failed attempts short of the threshold.                      *)
(***************************************************************************)
\* authenticate requests in one behaviour of SpecLock
MaxLockCalls == 2

LockInit ==
    \E k \in {LockThreshold - 2, LockThreshold - 1} : AfterFailedAttempts(k)

LockAuthenticate ==
    \E c \in 1..MaxLockCalls, r \in ConcRequests : Authenticate(c, r.badge, r.pin)

LockResetPin == ResetPin("001", PIN_0000, 2)

NextLock ==
    \/ LockAuthenticate
    \/ HandlerStep
    \/ DbStep
    \/ LockResetPin

SpecLock == LockInit /\ [][NextLock]_vars

\* C25: in every state reached by interleaved authenticate calls and PIN
\* resets from a record with fewer than 5 failed attempts that is not
\* locked, failed_attempts is at most 5, and a record with 5 or more failed
\* attempts is locked.
C25_CounterBounded ==
    \A b \in DOMAIN firefighters :
        /\ firefighters[b].failed_attempts <= 5
        /\ firefighters[b].failed_attempts >= 5 => firefighters[b].account_locked = 1


C25_Witness ==
    /\ firefighters["001"].failed_attempts = 5
    /\ firefighters["001"].account_locked = 1
    /\ InFlight # {}

(***************************************************************************)
(* Order and propagation inside one authenticate call.                     *)
(***************************************************************************)
\* C26: within one authenticate call the counter UPDATE has been executed
\* before the auth_logs row is written, and both before the response is
\* sent: no answered call has its UPDATE still waiting, and no UPDATE waits
\* while the log row of its call exists.
C26_UpdateThenLogThenResponse ==
    \A c \in CallIds :
        calls[c].pc = "done" => \A stmt \in pending : stmt.id # c

\* C27: a call whose auth_logs INSERT failed is answered with an internal
\* error: the calls answered otherwise have each written their log row.
C27_StorageErrorsSurfaced ==
    Cardinality({c \in CallIds : calls[c].pc = "done" /\ calls[c].status # 500})
        <= Len(auth_logs)

\* The records a step changes.
Mutated == {b \in DOMAIN firefighters : firefighters'[b] # firefighters[b]}

\* C28: a step of an authenticate call changes at most one firefighters
\* record, the one of the badge the call was made for, and never its
\* pin_hash; the records of all other badges keep every column.
C28_OnlyOwnRecord ==
    [][resets' = resets =>
          /\ DOMAIN firefighters' = DOMAIN firefighters
          /\ Cardinality(Mutated) <= 1
          /\ \A b \in Mutated :
                /\ \E stmt \in pending \ pending' :
                      stmt.id \in CallIds /\ calls[stmt.id].badge = b
                /\ firefighters'[b].pin_hash = firefighters[b].pin_hash
                /\ firefighters'[b].name = firefighters[b].name]_vars

\* C28 witness: a wrong PIN for badge 001 has been counted on its record,
\* which keeps its pin_hash, and the other records are as seeded.
C28_Witness ==
    /\ resets = <<>>
    /\ firefighters["001"].failed_attempts = 1
    /\ firefighters["001"].pin_hash = SeededFirefighters["001"].pin_hash
    /\ \A b \in DOMAIN firefighters \ {"001"} : firefighters[b] = SeededFirefighters[b]
    /\ \E c \in CallIds : calls[c].pc = "done" /\ calls[c].badge = "002"

(***************************************************************************)
(* The configuration of the lockout threshold.                             *)
(***************************************************************************)
\* parseInt of an environment variable; NaN stands as 0, both are falsy.
parseInt(value) == IF value = <<>> THEN 0 ELSE value[1]

\* security.maxFailedAttempts: parseInt(process.env.MAX_FAILED_ATTEMPTS) || 5
maxFailedAttempts ==
    IF parseInt(boot.MAX_FAILED_ATTEMPTS) = 0 THEN 5
    ELSE parseInt(boot.MAX_FAILED_ATTEMPTS)

\* The values MAX_FAILED_ATTEMPTS is started with: unset, 3 and 5.
ConfigInit ==
    \E value \in {<<>>, <<3>>, <<5>>} :
        /\ firefighters = SeededFirefighters
        /\ auth_logs = <<>>
        /\ pin_reset_logs = <<>>
        /\ pending = {}
        /\ calls = [c \in CallIds |-> IdleCall]
        /\ resets = <<>>
        /\ listing = {}
        /\ MigratedWith(value)

ConfigAuthenticate ==
    \E c \in CallIds, pin \in {PIN_1234, PIN_wrong} :
        Quiescent /\ Authenticate(c, "001", pin)

NextConfig ==
    \/ ConfigAuthenticate
    \/ HandlerStep
    \/ DbStep

\* SpecConfig: sequential authenticate calls for badge 001 on servers
\* started with different values of MAX_FAILED_ATTEMPTS.
SpecConfig == ConfigInit /\ [][NextConfig]_vars

\* C29: with threshold T configured, a record is locked by the failed
\* attempt that brings its counter to T and by no earlier one: it is locked
\* exactly when its counter has reached T.
C29_ConfiguredThreshold ==
    \A b \in DOMAIN firefighters :
        firefighters[b].account_locked = 1
            <=> firefighters[b].failed_attempts >= maxFailedAttempts

(***************************************************************************)
(* SpecReboot: a server in use that is stopped and started again. It       *)
(* starts in a state the handlers reach: badge 001 has been locked by five *)
(* wrong PINs and the PIN of badge 002 has been reset to 0000 by an admin. *)
(* Requests are served while the server listens, and it is stopped when no *)
(* request is in progress.                                                 *)
(***************************************************************************)
\* authenticate requests in one behaviour of SpecReboot
MaxRebootCalls == 2

RebootInit ==
    /\ firefighters =
          [SeededFirefighters EXCEPT
              !["001"] = [@ EXCEPT !.failed_attempts = LockThreshold,
                                   !.last_failed_attempt = NOW,
                                   !.account_locked = 1],
              !["002"] = PinResetUpdate(@, bcrypt_hash(PIN_0000, 2))]
    /\ auth_logs = [i \in 1..LockThreshold |-> AuthLogRow("001", FALSE, "Invalid PIN")]
    /\ pin_reset_logs = <<[badge |-> "002", reset_type |-> "admin"]>>
    /\ pending = {}
    /\ calls = [c \in CallIds |-> IdleCall]
    /\ resets = <<[badge |-> "002", status |-> 200]>>
    /\ listing = {}
    /\ Migrated

RebootRequests ==
    {[badge |-> "001", pin |-> PIN_1234], [badge |-> "002", pin |-> PIN_0000],
     [badge |-> "002", pin |-> PIN_2345]}

RebootAuthenticate ==
    \E c \in 1..MaxRebootCalls, r \in RebootRequests :
        Listening /\ Quiescent /\ Authenticate(c, r.badge, r.pin)

RebootRestart == Quiescent /\ Restart

NextReboot ==
    \/ RebootAuthenticate
    \/ HandlerStep
    \/ DbStep
    \/ RebootRestart
    \/ initializeDatabase

SpecReboot == RebootInit /\ [][NextReboot]_vars

\* C30: no step of a restart or of initializeDatabase on the initialised
\* store removes a firefighter or changes a firefighter's pin_hash,
\* failed_attempts, account_locked or last_failed_attempt.
C30_RestartKeepsCredentials ==
    [][boot' # boot =>
          \A b \in DOMAIN firefighters :
              /\ b \in DOMAIN firefighters'
              /\ firefighters'[b].pin_hash = firefighters[b].pin_hash
              /\ firefighters'[b].failed_attempts = firefighters[b].failed_attempts
              /\ firefighters'[b].account_locked = firefighters[b].account_locked
              /\ firefighters'[b].last_failed_attempt
                    = firefighters[b].last_failed_attempt]_vars

\* C30 witness: the server has been started again and listens; badge 001 is
\* still locked with its counter at 5, and badge 002 still holds the hash of
\* the PIN the admin set, not of the seeded one.
C30_Witness ==
    /\ boot.run >= 2
    /\ boot.pc = "listening"
    /\ firefighters["001"].account_locked = 1
    /\ firefighters["001"].failed_attempts = LockThreshold
    /\ firefighters["001"].last_failed_attempt = NOW
    /\ firefighters["002"].pin_hash = bcrypt_hash(PIN_0000, 2)
    /\ firefighters["002"].pin_hash # SeededFirefighters["002"].pin_hash

=============================================================================
